---------------------------- MODULE Spec2Model ----------------------------
(***************************************************************************)
(* A state-machine model of BayesianRW/SMEFiT_rw_unw.py: the reweighting   *)
(* and unweighting script.  The script is one sequential run; pc is the    *)
(* position of the run in the file, every action is one block of the       *)
(* script, and an exception (an assert, an IndexError, a                   *)
(* ZeroDivisionError) ends the run in pc = "aborted".                      *)
(*                                                                         *)
(* Numbers.  Arithmetic is exact.  A weight is an integer number of    *)
(* units over the common denominator `normalization`; a cumulative         *)
(* probability is an integer number of units over the same denominator.    *)
(* The effective size exp(entropy) is an algebraic number: with p_i =      *)
(* u_i/S it satisfies n_eff^S = S^(sum u_i) / prod u_i^u_i, and every      *)
(* comparison the script makes with it (floor, t/n_eff against C_i) is     *)
(* decided on these integers.  1e-300 is the value "tiny": it is positive, *)
(* and a sum of ordinary floats absorbs it.                                *)
(*                                                                         *)
(* Spec takes the magnitude of the weight expression of line 151 as an     *)
(* input of the run.  SpecE2E computes it from chi2 and the number of data *)
(* points in fixed point; there n_eff is an interval that holds the        *)
(* float64 value, and a comparison the interval leaves open can come out   *)
(* either way.                                                             *)
(***************************************************************************)
EXTENDS Integers, Sequences, FiniteSets, TLC

(* ---------------------------- bounds ---------------------------------- *)
\* largest number of replicas of a run
MaxReps == 3
\* largest total of the weight units of an ensemble
MaxUnits == 6
\* largest number of replicas whose likelihood record is out of domain
MaxInvalid == 1
\* the largest total of weight units of an ensemble whose weights are raised
MaxMonoUnits == 4
\* largest number of operators of an array the selection is run on
MaxSelOps == 3
\* resolution of the weights of the numeric runs: units of 1/FxScale
FxScale == 200
\* resolution of the fixed-point evaluation of sqrt, exp and log
FxFine == 10000
\* bound, in units of 1/FxFine, on the truncation error of a fixed-point
\* logarithm or exponential (at most one unit for each term of the series)
FxSlack == 100

(* ---------------------- the inputs of the model ----------------------- *)
\* operator names of the prior files (line 107)
op_names == <<"cA">>
\* values a Wilson coefficient takes in the prior and the posterior files
PriorVals == {0, 1}
PosterVals == {0, 1, 3}
\* Likelihood records of the chi2 files (line 120).  chi2 enters the weight
\* only through its sign and through the magnitude of the weight
\* expression: chi = -1, 0, 1 stands for a negative, a zero, a positive
\* chi2.  k is the datapoint count.
ValidRecords == {[chi |-> 1, k |-> 2]}
InvalidRecords == {[chi |-> -1, k |-> 3], [chi |-> -1, k |-> 2],
                   [chi |-> 1, k |-> 0], [chi |-> 0, k |-> 0]}

\* the numeric runs: numbers of replicas, chi2 values and numbers of data
\* points, the same for every replica of a run
E2EReps == {2, 3, 4}
E2EChi == {1, 2, 3, 4}
E2EPoints == {2, 3}

\* the settings inp.ks_level and inp.reduction_level, as fractions: the
\* values 0, 1/2 and 1.  The runs of the script use 1/2 for both; the
\* selection of lines 286-289 is also run on its own, for every pair of
\* levels and for arrays of these KS statistics and reductions (a reduction
\* [kind, num, den] has the value 1 - sqrt(num/den): 0, 1/2, 1 and NaN).
Levels == {[num |-> 0, den |-> 1], [num |-> 1, den |-> 2], [num |-> 1, den |-> 1]}
RunLevel == [num |-> 1, den |-> 2]
KsVals == Levels
RedVals == {[kind |-> "num", num |-> 1, den |-> 1], [kind |-> "num", num |-> 1, den |-> 4],
            [kind |-> "num", num |-> 0, den |-> 1], [kind |-> "nan", num |-> 0, den |-> 1]}

VARIABLES
    pc,                \* position of the run
    error,             \* the exception that ended the run, "" if none
    n_reps,            \* inp.n_reps
    prior_coeffs,      \* [rep][operator]
    prior_st_devs,     \* [operator]: [num, den], the std-dev is sqrt(num/den)
    chi2_all_reps,     \* [rep]: sign of the chi2
    chi2_mag,          \* [rep]: |weight expression| of the record, in units
    n_datapoints,      \* [rep]
    normalization,     \* sum of the unnormalized weights, [kind, num]
    nnpdf_weights,     \* [rep]: [kind, num]; the value is num * n_reps / normalization.num
    zero_weights,      \* set of replicas clamped to 1e-300
    n_eff,             \* [kind, root, splus, P]
    rw_st_devs,        \* [operator]: [num, den], the std-dev is sqrt(num/den)
    probs_cumul,       \* [rep]: cumulative units over normalization.num
    unw_weights,       \* [rep]: multiplicity
    unw_coeffs,        \* rows of the unweighted set
    poster_coeffs,     \* [rep][operator]
    poster_st_devs,    \* [operator]: [num, den], the std-dev is sqrt(num/den)
    reduction_poster,  \* [operator]: [kind, num, den], the value is 1 - sqrt(num/den)
    reduction_rw,      \* [operator]: [kind, num, den], the value is 1 - sqrt(num/den)
    saved,             \* rows written to rw_output/unw_coeffs.txt, or <<>>
    ks_level,          \* inp.ks_level, a fraction [num, den]
    reduction_level,   \* inp.reduction_level, a fraction [num, den]
    ks_stats,          \* [operator]: the KS statistic, a fraction [num, den]
    constr_op_nums     \* the selected operators, in increasing order

vars == <<pc, error, n_reps, prior_coeffs, prior_st_devs, chi2_all_reps, chi2_mag,
          n_datapoints, normalization, nnpdf_weights, zero_weights, n_eff, rw_st_devs,
          probs_cumul, unw_weights, unw_coeffs, poster_coeffs, poster_st_devs,
          reduction_poster, reduction_rw, saved, ks_level, reduction_level,
          ks_stats, constr_op_nums>>

loadVars == <<n_reps, prior_coeffs, prior_st_devs, chi2_all_reps, chi2_mag, n_datapoints>>
weightVars == <<normalization, nnpdf_weights, zero_weights>>
unwVars == <<probs_cumul, unw_weights, unw_coeffs>>
checkVars == <<poster_coeffs, poster_st_devs, reduction_poster, reduction_rw>>
configVars == <<ks_level, reduction_level>>
selectVars == <<ks_stats, constr_op_nums>>

(* ------------------------- arithmetic helpers ------------------------- *)
RECURSIVE Pow(_, _)
Pow(b, e) == IF e = 0 THEN 1 ELSE b * Pow(b, e - 1)

Abs(x) == IF x < 0 THEN -x ELSE x

RECURSIVE SumSeq(_)
SumSeq(s) == IF s = <<>> THEN 0 ELSE Head(s) + SumSeq(Tail(s))

Reps == 1..n_reps
Ops == 1..Len(op_names)

(* Values of a float: an ordinary number, +inf, -inf, NaN, or 1e-300. *)
Num(x) == [kind |-> "num", num |-> x]
Inf == [kind |-> "inf", num |-> 0]
NegInf == [kind |-> "ninf", num |-> 0]
NaN == [kind |-> "nan", num |-> 0]
Tiny == [kind |-> "tiny", num |-> 0]

(* --------------------------- line 151 --------------------------------- *)
(* (chi2/s^2) ** (1/2*(k-1)) * exp(-1/2*chi2/s^2) for s = 1, as numpy      *)
(* evaluates it: a negative base with a fractional exponent is NaN, with   *)
(* an integer exponent it keeps the sign of the power; 0**0 is 1, 0 to a   *)
(* positive power is 0, 0 to a negative power is +inf.  mag is the         *)
(* absolute value of a finite, nonzero result, in units.                   *)
UnnormalizedWeight(chi, k, mag) ==
    LET e2 == k - 1   \* twice the exponent
    IN  IF chi > 0 THEN Num(mag)
        ELSE IF chi = 0
             THEN IF e2 = 0 THEN Num(mag)
                  ELSE IF e2 > 0 THEN Num(0) ELSE Inf
        ELSE IF e2 % 2 # 0 THEN NaN
             ELSE IF (e2 \div 2) % 2 = 0 THEN Num(mag) ELSE Num(-mag)

(* np.sum of a vector of floats *)
(* line 151 evaluated for chi2 > 0, in fixed point: sqrt, exp in units of   *)
(* 1/FxFine, the weight rounded to units of 1/FxScale.  The float64 value  *)
(* of the weight, times FxScale, is within one unit of the result.         *)
RECURSIVE ISqrtIter(_, _)
ISqrtIter(n, x) ==
    LET y == (x + n \div x) \div 2 IN IF y >= x THEN x ELSE ISqrtIter(n, y)

\* floor(sqrt(n))
ISqrt(n) == IF n = 0 THEN 0 ELSE ISqrtIter(n, n)

\* the series of exp(x): term is x^(k-1)/(k-1)!
RECURSIVE ExpSum(_, _, _)
ExpSum(x, term, k) ==
    IF term = 0 THEN 0 ELSE term + ExpSum(x, (term * x) \div (k * FxFine), k + 1)

\* np.exp(x) for x >= 0
FxExp(x) == ExpSum(x, FxFine, 1)

\* chi2 ** (1/2*(k-1)) for chi2 > 0, k >= 1
FxPower(chi, k) ==
    IF (k - 1) % 2 = 0 THEN Pow(chi, (k - 1) \div 2) * FxFine
    ELSE Pow(chi, (k - 1) \div 2) * ISqrt(chi * FxFine * FxFine)

\* a faulty weight, against which C7_EndToEnd is tried: the exponential
\* taken at chi2 = 4 for every replica, which leaves the power alone
FxFixedExp(chi, k) ==
    LET ex == (FxFine * FxFine) \div FxExp((4 * FxFine) \div 2)
        w == (FxPower(chi, k) * ex) \div FxFine
    IN  (2 * w * FxScale + FxFine) \div (2 * FxFine)

FxWeight(chi, k) ==
    LET ex == (FxFine * FxFine) \div FxExp((chi * FxFine) \div 2)   \* np.exp(-1/2*chi2)
        w == (FxPower(chi, k) * ex) \div FxFine
    IN  (2 * w * FxScale + FxFine) \div (2 * FxFine)

SumFloats(v) ==
    IF \E i \in DOMAIN v : v[i].kind = "nan" THEN NaN
    ELSE IF (\E i \in DOMAIN v : v[i].kind = "inf") /\ (\E i \in DOMAIN v : v[i].kind = "ninf") THEN NaN
    ELSE IF \E i \in DOMAIN v : v[i].kind = "inf" THEN Inf
    ELSE IF \E i \in DOMAIN v : v[i].kind = "ninf" THEN NegInf
    ELSE Num(SumSeq([i \in DOMAIN v |-> v[i].num]))

(* lines 152-153: x / normalization, the common factor n_reps kept apart.  *)
(* The quotient by a negative sum changes sign; num is the signed          *)
(* numerator over |sum|.                                                   *)
Divide(x, norm) ==
    IF x.kind = "nan" \/ norm.kind = "nan" THEN NaN
    ELSE IF norm.kind = "inf"
         THEN IF x.kind = "inf" THEN NaN ELSE Num(0)
    ELSE IF x.kind = "inf"
         THEN IF norm.num < 0 THEN NegInf ELSE Inf
    ELSE IF norm.num = 0
         THEN IF x.num > 0 THEN Inf ELSE IF x.num < 0 THEN NegInf ELSE NaN
    ELSE IF norm.num < 0 THEN Num(-x.num) ELSE Num(x.num)

calculate_weights(chi2, k, mag) ==
    LET unnormalized_weights == [i \in DOMAIN chi2 |-> UnnormalizedWeight(chi2[i], k[i], mag[i])]
        norm == SumFloats(unnormalized_weights)
    IN  [normalization |-> norm,
         weights |-> [i \in DOMAIN chi2 |-> Divide(unnormalized_weights[i], norm)]]

RECURSIVE GCD(_, _)
GCD(a, b) == IF b = 0 THEN a ELSE GCD(b, a % b)

\* the fraction num/den in lowest terms, den > 0
Fraction(num, den) ==
    LET g == GCD(den, num) IN [num |-> num \div g, den |-> den \div g]

(* ------------------ lines 129-131: standard deviations ---------------- *)
\* the column of an operator
Column(coeffs, op) == [i \in DOMAIN coeffs |-> coeffs[i][op]]

\* 1/(n-1) * np.sum((x - np.mean(x))**2) as the fraction num/den, n >= 2
Variance(x, n) ==
    LET total == SumSeq(x)
    IN  Fraction(SumSeq([i \in DOMAIN x |-> (n * x[i] - total) * (n * x[i] - total)]),
                 n * n * (n - 1))

StDevsOf(coeffs, n) == [op \in Ops |-> Variance(Column(coeffs, op), n)]

(* --------------------------- initial state ---------------------------- *)
NothingRun ==
    /\ pc = "start"
    /\ error = ""
    /\ prior_coeffs = <<>>
    /\ prior_st_devs = <<>>
    /\ chi2_all_reps = <<>>
    /\ chi2_mag = <<>>
    /\ n_datapoints = <<>>
    /\ normalization = Num(0)
    /\ nnpdf_weights = <<>>
    /\ zero_weights = {}
    /\ n_eff = NaN
    /\ rw_st_devs = <<>>
    /\ probs_cumul = <<>>
    /\ unw_weights = <<>>
    /\ unw_coeffs = <<>>
    /\ poster_coeffs = <<>>
    /\ poster_st_devs = <<>>
    /\ reduction_poster = <<>>
    /\ reduction_rw = <<>>
    /\ saved = <<>>
    /\ ks_stats = <<>>
    /\ constr_op_nums = <<>>

\* lines 87-88
Settings == ks_level = RunLevel /\ reduction_level = RunLevel

Init == n_reps \in 0..MaxReps /\ NothingRun /\ Settings

InitE2E == n_reps \in E2EReps /\ NothingRun /\ Settings

Abort(e) ==
    /\ pc' = "aborted"
    /\ error' = e

(* ---------------------- lines 96-146: loading ------------------------- *)
\* the magnitudes a record can have: none where the weight expression is
\* 0, inf or NaN whatever the size of chi2
MagsOf(rec) ==
    LET w == UnnormalizedWeight(rec.chi, rec.k, 1)
    IN  IF w.kind # "num" \/ w.num = 0 THEN {0}
        ELSE IF rec.chi < 0 THEN 1..MaxUnits
        ELSE 0..MaxUnits

LoadPrior ==
    /\ pc = "start"
    /\ \E coeffs \in [Reps -> [Ops -> PriorVals]],
          recs \in [Reps -> ValidRecords \cup InvalidRecords] :
          \E mag \in [Reps -> 0..MaxUnits] :
            /\ Cardinality({i \in Reps : recs[i] \in InvalidRecords}) <= MaxInvalid
            /\ \A i \in Reps : mag[i] \in MagsOf(recs[i])
            /\ SumSeq(mag) <= MaxUnits
            /\ prior_coeffs' = coeffs
            /\ prior_st_devs' = IF n_reps >= 2 THEN StDevsOf(coeffs, n_reps) ELSE <<>>
            /\ chi2_all_reps' = [i \in Reps |-> recs[i].chi]
            /\ n_datapoints' = [i \in Reps |-> recs[i].k]
            /\ chi2_mag' = mag
    /\ IF n_reps = 0
       THEN Abort("IndexError")           \* line 125: op_names_list is empty
       ELSE IF n_reps = 1
       THEN Abort("ZeroDivisionError")    \* line 130: 1/(n_reps-1)
       ELSE pc' = "weights" /\ error' = error
    /\ UNCHANGED <<n_reps, weightVars, n_eff, rw_st_devs, unwVars, checkVars, saved, configVars, selectVars>>

\* the numeric runs: chi2 values in increasing order, the magnitude of the
\* weight expression computed from them
LoadPriorE2E ==
    /\ pc = "start"
    /\ \E coeffs \in [Reps -> [Ops -> PriorVals]],
          chi \in [Reps -> E2EChi], k \in E2EPoints :
            /\ \A i \in Reps : i > 1 => chi[i - 1] <= chi[i]
            /\ prior_coeffs' = coeffs
            /\ prior_st_devs' = StDevsOf(coeffs, n_reps)
            /\ chi2_all_reps' = chi
            /\ n_datapoints' = [i \in Reps |-> k]
            /\ chi2_mag' = [i \in Reps |-> FxWeight(chi[i], k)]
    /\ pc' = "weights"
    /\ UNCHANGED <<error, n_reps, weightVars, n_eff, rw_st_devs, unwVars, checkVars, saved, configVars, selectVars>>

(* ------------------- lines 149-158: the weights ----------------------- *)
CalculateWeights ==
    /\ pc = "weights"
    /\ LET r == calculate_weights(chi2_all_reps, n_datapoints, chi2_mag)
       IN  /\ normalization' = r.normalization
           /\ nnpdf_weights' = r.weights
    /\ pc' = "clamp"
    /\ UNCHANGED <<error, loadVars, zero_weights, n_eff, rw_st_devs, unwVars, checkVars, saved, configVars, selectVars>>

(* ------------- lines 160-163: weights below 1e-300 -------------------- *)
\* x < 1.0e-300; a comparison with NaN is False
BelowTiny(x) ==
    \/ x.kind = "ninf"
    \/ x.kind = "num" /\ x.num <= 0

ZeroWeightsOf(w) == {i \in DOMAIN w : BelowTiny(w[i])}

ReplaceSmallWeights ==
    /\ pc = "clamp"
    /\ zero_weights' = ZeroWeightsOf(nnpdf_weights)
    /\ nnpdf_weights' = [i \in DOMAIN nnpdf_weights |->
                            IF i \in ZeroWeightsOf(nnpdf_weights) THEN Tiny ELSE nnpdf_weights[i]]
    /\ pc' = "assert_norm"
    /\ UNCHANGED <<error, loadVars, normalization, n_eff, rw_st_devs, unwVars, checkVars, saved, configVars, selectVars>>

(* ---------------- lines 165-166: normalization check ------------------ *)
\* np.round(num/den) == n for den > 0: round half to even
RoundsTo(num, den, n) ==
    LET d == Abs(num - n * den)
    IN  2 * d < den \/ (2 * d = den /\ n % 2 = 0)

\* np.round(np.sum(nnpdf_weights)) == n_reps; 1e-300 is absorbed by the sum
NormalizationHolds(w, norm, n) ==
    LET s == SumFloats(w)
    IN  /\ s.kind = "num"
        /\ norm.kind = "num"
        /\ norm.num # 0
        /\ RoundsTo(s.num * n, Abs(norm.num), n)

AssertNormalization ==
    /\ pc = "assert_norm"
    /\ IF NormalizationHolds(nnpdf_weights, normalization, n_reps)
       THEN pc' = "n_eff" /\ error' = error
       ELSE Abort("AssertionError: sum of weights should equal number of replicas")
    /\ UNCHANGED <<loadVars, weightVars, n_eff, rw_st_devs, unwVars, checkVars, saved, configVars, selectVars>>

(* ------------------ line 170: the effective size ---------------------- *)
\* x * np.log(n_reps / x) summed: with x = num*n_reps/S the exponent of
\* n_eff is sum (num/S) ln(S/num), so n_eff^S = S^splus / P with
\* splus = sum num, P = prod num^num.  1e-300 * ln(n_reps/1e-300) is
\* absorbed by the sum; 0 * ln(n_reps/0) is NaN.
RECURSIVE ProdPow(_)
ProdPow(s) == IF s = <<>> THEN 1 ELSE Pow(Head(s), Head(s)) * ProdPow(Tail(s))

NEffOf(w, norm) ==
    IF \E i \in DOMAIN w : w[i].kind \notin {"num", "tiny"} \/ (w[i].kind = "num" /\ w[i].num <= 0)
    THEN [kind |-> "nan", root |-> 1, splus |-> 0, P |-> 1]
    ELSE [kind |-> "num",
          root |-> Abs(norm.num),
          splus |-> SumSeq([i \in DOMAIN w |-> w[i].num]),
          P |-> ProdPow([i \in DOMAIN w |-> w[i].num])]

RECURSIVE MaxSeq(_)
MaxSeq(s) == IF Len(s) = 1 THEN s[1]
             ELSE LET m == MaxSeq(Tail(s)) IN IF s[1] >= m THEN s[1] ELSE m

\* the series of log((1+z)/(1-z)) / 2: pw is z^k, k odd
RECURSIVE LnSum(_, _, _)
LnSum(z2, pw, k) ==
    IF pw = 0 THEN 0 ELSE pw \div k + LnSum(z2, (pw * z2) \div FxFine, k + 2)

\* np.log(num/den) for num >= den > 0
FxLn(num, den) ==
    LET z == ((num - den) * FxFine) \div (num + den)
    IN  2 * LnSum((z * z) \div FxFine, z, 1)

(* line 170 for weights known to one unit of 1/FxScale each: an interval   *)
(* [lo, hi], in units of 1/FxFine, that holds the float64 n_eff.           *)
(* log(n_eff) = sum (w_i/S) log(S/w_i) changes by at most                  *)
(* log(w_max/w_min)/S when one w_i changes by a unit.                      *)
NEffFx(w, norm) ==
    LET S == Abs(norm.num)
        u == [i \in DOMAIN w |-> w[i].num]
        n == Len(w)
        H == SumSeq([i \in DOMAIN w |-> IF u[i] = 0 THEN 0 ELSE u[i] * FxLn(S, u[i])]) \div S
        umin == CHOOSE x \in {u[i] : i \in DOMAIN u} : \A i \in DOMAIN u : x <= u[i]
        tol == (n * FxLn(MaxSeq(u) + 1, umin - 1)) \div (S - n) + 1 + FxSlack
    IN  [kind |-> "fx",
         n |-> n,
         lo |-> FxExp(IF H > tol THEN H - tol ELSE 0) - FxSlack,
         hi |-> FxExp(H + tol) + FxSlack,
         floor |-> 0,
         sg |-> <<>>]

\* np.floor(n_eff) can be any of these
FloorsFx(ne) == {m \in 0..(ne.n + 1) : m * FxFine <= ne.hi /\ (m + 1) * FxFine > ne.lo}

\* m <= n_eff, for an integer m >= 0
AtMostNEff(m, ne) == Pow(m, ne.root) <= Pow(ne.root, ne.splus) \div ne.P

\* np.floor(n_eff)
FloorNEff(ne) ==
    IF ne.kind = "fx" THEN ne.floor
    ELSE CHOOSE m \in 0..(2 * MaxReps) : AtMostNEff(m, ne) /\ ~AtMostNEff(m + 1, ne)

IsIntegerNEff(ne) == Pow(FloorNEff(ne), ne.root) * ne.P = Pow(ne.root, ne.splus)

\* len(np.arange(1, n_eff + 1)): the integers 1 <= t < n_eff + 1; a slot
\* point above 1 is counted for no replica
SlotCount(ne) ==
    IF ne.kind = "fx" THEN ne.hi \div FxFine + 1
    ELSE IF IsIntegerNEff(ne) THEN FloorNEff(ne) ELSE FloorNEff(ne) + 1

\* the sign of unw_rep_num/n_eff - cum/den when n_eff is in [lo, hi] and
\* cum/den is known to n units above and below (exactly when it is 1):
\* 2 when the interval does not decide it
SlotSignFx(t, cum, den, ne) ==
    LET tol == IF cum = den THEN 0 ELSE ne.n
    IN  IF t * FxFine * den > (cum + tol) * ne.hi THEN 1
        ELSE IF t * FxFine * den < (cum - tol) * ne.lo THEN -1
        ELSE 2

\* the sign of unw_rep_num/n_eff - cum/den, for unw_rep_num >= 1: the sign
\* of (t*den)^root * P - (cum*root)^root * root^(splus - root), the two bases
\* reduced by their common factor
SlotCmp(t, cum, den, ne) ==
    IF ne.kind = "fx"
    THEN IF SlotSignFx(t, cum, den, ne) = 2 THEN ne.sg[<<t, cum>>]
         ELSE SlotSignFx(t, cum, den, ne)
    ELSE
    LET g == GCD(t * den, cum * ne.root)
        rhs == Pow((cum * ne.root) \div g, ne.root) * Pow(ne.root, ne.splus - ne.root)
        lhs == Pow((t * den) \div g, ne.root)
        q == rhs \div lhs
    IN  IF ne.P > q THEN 1
        ELSE IF ne.P = q /\ rhs % lhs = 0 THEN 0
        ELSE -1

EffectiveSize ==
    /\ pc = "n_eff"
    /\ n_eff' = NEffOf(nnpdf_weights, normalization)
    /\ pc' = "rw"
    /\ UNCHANGED <<error, loadVars, weightVars, rw_st_devs, unwVars, checkVars, saved, configVars, selectVars>>

EffectiveSizeFx ==
    /\ pc = "n_eff"
    /\ n_eff' = NEffFx(nnpdf_weights, normalization)
    /\ pc' = "rw"
    /\ UNCHANGED <<error, loadVars, weightVars, rw_st_devs, unwVars, checkVars, saved, configVars, selectVars>>

(* ------------- lines 173-178: the reweighted moments ------------------ *)
\* 1/(n-1) * sum W_i (x_i - mean(W_i x_i))**2 with W_i = num_i * n / S:
\* the mean is sum(num_i x_i)/S, the variance n * sum num_i (S x_i - T)^2
\* over (n-1) * S^3
WeightedVariance(x, w, norm, n) ==
    LET S == Abs(norm.num)
        T == SumSeq([i \in DOMAIN x |-> w[i].num * x[i]])
    IN  Fraction(n * SumSeq([i \in DOMAIN x |-> w[i].num * (S * x[i] - T) * (S * x[i] - T)]),
                 (n - 1) * S * S * S)

Reweighted ==
    /\ pc = "rw"
    /\ rw_st_devs' = [op \in Ops |->
                         WeightedVariance(Column(prior_coeffs, op), nnpdf_weights,
                                          normalization, n_reps)]
    /\ pc' = "cumul"
    /\ UNCHANGED <<error, loadVars, weightVars, n_eff, unwVars, checkVars, saved, configVars, selectVars>>

(* ------------- lines 187-195: cumulative probabilities ---------------- *)
\* np.sum(probs[0:rep_num]) in units; a leading 1e-300 is below every slot
\* point, and is absorbed once an ordinary float has been added
ProbsCumulOf(w) ==
    [i \in DOMAIN w |-> SumSeq([j \in 1..i |-> w[j].num])]

\* the number of decimals of np.round at line 195, as a power of ten
CumulRoundScale == 10000

\* np.round(np.max(probs_cumul), 4) == 1.0000
CumulHolds(c, norm) ==
    LET d == Abs(MaxSeq(c) - Abs(norm.num))
    IN  2 * CumulRoundScale * d <= Abs(norm.num)

Cumulants ==
    /\ pc = "cumul"
    /\ probs_cumul' = ProbsCumulOf(nnpdf_weights)
    /\ IF CumulHolds(ProbsCumulOf(nnpdf_weights), normalization)
       THEN pc' = "unweight" /\ error' = error
       ELSE Abort("AssertionError: probability cumulants do not add up to 1.0000")
    /\ UNCHANGED <<loadVars, weightVars, n_eff, rw_st_devs, unw_weights, unw_coeffs, checkVars, saved, configVars, selectVars>>

(* ---------------- lines 197-224: the integer weights ------------------ *)
\* np.heaviside(x, 1.0) for x of sign sgn: 1 at x = 0
Heaviside(sgn) == IF sgn >= 0 THEN 1 ELSE 0

\* a faulty entry, against which C4_MonotoneFixedTarget is tried: both
\* comparisons made with the cumulative probability of the replica itself
UnwWeightsAtPoint(rep_num, unw_rep_num, cumul, den, ne) ==
    IF rep_num = 1
    THEN Heaviside(1) * Heaviside(-SlotCmp(unw_rep_num, cumul[rep_num], den, ne))
    ELSE Heaviside(SlotCmp(unw_rep_num, cumul[rep_num], den, ne))
         * Heaviside(-SlotCmp(unw_rep_num, cumul[rep_num], den, ne))

\* lines 209-215: the entry of replica rep_num for slot unw_rep_num
\* cumul[i]/den is probs_cumul[i], ne is unw_n_reps
UnwWeightsRepNum(rep_num, unw_rep_num, cumul, den, ne) ==
    IF rep_num = 1
    THEN Heaviside(1) * Heaviside(-SlotCmp(unw_rep_num, cumul[rep_num], den, ne))
    ELSE Heaviside(SlotCmp(unw_rep_num, cumul[rep_num - 1], den, ne))
         * Heaviside(-SlotCmp(unw_rep_num, cumul[rep_num], den, ne))

\* lines 203-219
UnwWeightsOf(cumul, den, ne) ==
    [rep_num \in DOMAIN cumul |->
        SumSeq([unw_rep_num \in 1..SlotCount(ne) |->
                    UnwWeightsRepNum(rep_num, unw_rep_num, cumul, den, ne)])]

\* line 222: np.round(np.sum(unw_weights)) == np.floor(unw_n_reps)
UnwNormalizationHolds(uw, ne) == SumSeq(uw) = FloorNEff(ne)

\* a faulty run, against which C9_ChecksFatal is tried: the integer weights
\* are used whatever their sum
UnweightUnchecked ==
    /\ pc = "unweight"
    /\ unw_weights' = UnwWeightsOf(probs_cumul, Abs(normalization.num), n_eff)
    /\ pc' = "expand"
    /\ UNCHANGED <<error, loadVars, weightVars, n_eff, rw_st_devs, probs_cumul, unw_coeffs, checkVars, saved, configVars, selectVars>>

\* the comparisons and the floor the interval of n_eff leaves open can come
\* out either way in float64
Roundings(cumul, den, ne) ==
    IF ne.kind # "fx" THEN {ne}
    ELSE LET open == {p \in (1..SlotCount(ne)) \X {cumul[i] : i \in DOMAIN cumul} :
                         SlotSignFx(p[1], p[2], den, ne) = 2}
         IN  {[ne EXCEPT !.floor = fl, !.sg = sg] :
                 fl \in FloorsFx(ne), sg \in [open -> {-1, 0, 1}]}

Unweight ==
    /\ pc = "unweight"
    /\ \E ne \in Roundings(probs_cumul, Abs(normalization.num), n_eff) :
          /\ unw_weights' = UnwWeightsOf(probs_cumul, Abs(normalization.num), ne)
          /\ IF UnwNormalizationHolds(UnwWeightsOf(probs_cumul, Abs(normalization.num), ne), ne)
             THEN pc' = "expand" /\ error' = error
             ELSE Abort("AssertionError: integer weights after unweighting do not satisfy normalization")
    /\ UNCHANGED <<loadVars, weightVars, n_eff, rw_st_devs, probs_cumul, unw_coeffs, checkVars, saved, configVars, selectVars>>

(* ---------------- lines 226-233: the unweighted set ------------------- *)
\* a faulty expansion, against which C6_Expansion is tried: one copy of a
\* surviving row whatever its multiplicity
CopiesOnce(row, n) == <<row>>

RECURSIVE Copies(_, _)
Copies(row, n) == IF n = 0 THEN <<>> ELSE <<row>> \o Copies(row, n - 1)

\* np.where(unw_weights != 0)[0], in increasing order
RECURSIVE SurvRepNums(_, _)
SurvRepNums(uw, i) ==
    IF i > Len(uw) THEN <<>>
    ELSE (IF uw[i] # 0 THEN <<i>> ELSE <<>>) \o SurvRepNums(uw, i + 1)

\* np.repeat(rows, counts, axis=0)
RECURSIVE Repeat(_, _)
Repeat(rows, counts) ==
    IF rows = <<>> THEN <<>>
    ELSE Copies(Head(rows), Head(counts)) \o Repeat(Tail(rows), Tail(counts))

UnwCoeffsOf(coeffs, uw) ==
    LET surv_rep_nums == SurvRepNums(uw, 1)
        surv_prior_coeffs == [j \in DOMAIN surv_rep_nums |-> coeffs[surv_rep_nums[j]]]
        n_copies == [j \in DOMAIN surv_rep_nums |-> uw[surv_rep_nums[j]]]
    IN  Repeat(surv_prior_coeffs, n_copies)

Expand ==
    /\ pc = "expand"
    /\ unw_coeffs' = UnwCoeffsOf(prior_coeffs, unw_weights)
    /\ pc' = "ks"
    /\ UNCHANGED <<error, loadVars, weightVars, n_eff, rw_st_devs, probs_cumul, unw_weights, checkVars, saved, configVars, selectVars>>

(* ------------ lines 241-248: Kolmogorov-Smirnov statistics ------------ *)
\* the number of values of the sample x that are <= v
CountAtMost(x, v) == Cardinality({i \in DOMAIN x : x[i] <= v})

\* stats.ks_2samp(data1, data2)[0]: the largest distance between the two
\* empirical distribution functions, taken over the values of both samples
ks_2samp(data1, data2) ==
    LET n1 == Len(data1)
        n2 == Len(data2)
        data_all == {data1[i] : i \in DOMAIN data1} \cup {data2[i] : i \in DOMAIN data2}
        cddiffs == {Abs(CountAtMost(data1, v) * n2 - CountAtMost(data2, v) * n1) : v \in data_all}
        d == CHOOSE x \in cddiffs : \A y \in cddiffs : y <= x
    IN  Fraction(d, n1 * n2)

KolmogorovSmirnov ==
    /\ pc = "ks"
    /\ ks_stats' = [op \in Ops |-> ks_2samp(Column(prior_coeffs, op), Column(unw_coeffs, op))]
    /\ pc' = "posterior"
    /\ UNCHANGED <<error, loadVars, weightVars, n_eff, rw_st_devs, unwVars, checkVars, saved,
                   configVars, constr_op_nums>>

(* -------------- lines 256-275: the posterior ensemble ----------------- *)
LoadPosterior ==
    /\ pc = "posterior"
    /\ \E coeffs \in [Reps -> [Ops -> PosterVals]] :
          \* the moments are symmetric in the replicas: one order of each ensemble
          /\ \A i \in Reps, op \in Ops : i > 1 => coeffs[i - 1][op] <= coeffs[i][op]
          /\ poster_coeffs' = coeffs
          /\ poster_st_devs' = StDevsOf(coeffs, n_reps)
    /\ pc' = "reduction"
    /\ UNCHANGED <<error, loadVars, weightVars, n_eff, rw_st_devs, unwVars,
                   reduction_poster, reduction_rw, saved, configVars, selectVars>>

(* ------- lines 277-284: reduction of the standard deviations ---------- *)
\* the float 0.0 that np.put writes
ZeroReduction == [kind |-> "num", num |-> 1, den |-> 1]

\* 1 - comparison/reference, then 0.0 wherever the result is < 0.
\* x/0 is inf for x > 0 and NaN for x = 0; NaN < 0 is False.
ReductionOf(reference, comparison) ==
    IF reference.num = 0
    THEN IF comparison.num = 0
         THEN [kind |-> "nan", num |-> 0, den |-> 1]
         ELSE ZeroReduction
    ELSE IF comparison.num * reference.den > comparison.den * reference.num
         THEN ZeroReduction
         ELSE [kind |-> "num",
               num |-> comparison.num * reference.den,
               den |-> comparison.den * reference.num]

Reduction ==
    /\ pc = "reduction"
    /\ reduction_poster' = [op \in Ops |-> ReductionOf(prior_st_devs[op], poster_st_devs[op])]
    /\ reduction_rw' = [op \in Ops |-> ReductionOf(prior_st_devs[op], rw_st_devs[op])]
    /\ pc' = "select"
    /\ UNCHANGED <<error, loadVars, weightVars, n_eff, rw_st_devs, unwVars,
                   poster_coeffs, poster_st_devs, saved, configVars, selectVars>>

(* ------------ lines 286-289: the constrained operators ---------------- *)
\* a faulty comparison, against which C11_Selection is tried: >= for >
ReachesLevel(x, level) == x.num * level.den >= level.num * x.den

\* x > level for two fractions with positive denominators
Exceeds(x, level) == x.num * level.den > level.num * x.den

\* r > level for a reduction r of value 1 - sqrt(r.num/r.den): NaN > level
\* is False; for 0 <= level <= 1 the comparison is sqrt(r.num/r.den) < 1 - level
ReductionExceeds(r, level) ==
    IF r.kind # "num" THEN FALSE
    ELSE IF level.num < 0 THEN TRUE
    ELSE IF level.num >= level.den THEN FALSE
    ELSE r.num * level.den * level.den
            < r.den * (level.den - level.num) * (level.den - level.num)

\* np.where(mask)[0]: the indices i <= n of the array at which mask holds,
\* in increasing order (counted from 1)
RECURSIVE Where(_, _)
Where(mask, n) ==
    IF n = 0 THEN <<>>
    ELSE Where(mask, n - 1) \o (IF mask[n] THEN <<n>> ELSE <<>>)

\* the sorted values of a set of integers
RECURSIVE Sorted(_)
Sorted(S) ==
    IF S = {} THEN <<>>
    ELSE LET m == CHOOSE x \in S : \A y \in S : x <= y IN <<m>> \o Sorted(S \ {m})

\* np.intersect1d(ar1, ar2): the sorted, unique values that are in both
intersect1d(ar1, ar2) ==
    Sorted({ar1[i] : i \in DOMAIN ar1} \cap {ar2[i] : i \in DOMAIN ar2})

ConstrOpNumsOf(ks, red, kl, rl) ==
    LET ops_satisfy_ks == Where([i \in DOMAIN ks |-> Exceeds(ks[i], kl)], Len(ks))
        ops_satisfy_red == Where([i \in DOMAIN red |-> ReductionExceeds(red[i], rl)], Len(red))
    IN  intersect1d(ops_satisfy_ks, ops_satisfy_red)

Select ==
    /\ pc = "select"
    /\ constr_op_nums' = ConstrOpNumsOf(ks_stats, reduction_poster, ks_level, reduction_level)
    /\ pc' = "save"
    /\ UNCHANGED <<error, loadVars, weightVars, n_eff, rw_st_devs, unwVars, checkVars, saved,
                   configVars, ks_stats>>

\* the selection on its own: the script is at line 286 with any arrays of
\* KS statistics and reductions and any levels
InitSelect ==
    /\ pc = "select"
    /\ error = ""
    /\ n_reps = 0
    /\ prior_coeffs = <<>> /\ prior_st_devs = <<>>
    /\ chi2_all_reps = <<>> /\ chi2_mag = <<>> /\ n_datapoints = <<>>
    /\ normalization = Num(0) /\ nnpdf_weights = <<>> /\ zero_weights = {}
    /\ n_eff = NaN /\ rw_st_devs = <<>>
    /\ probs_cumul = <<>> /\ unw_weights = <<>> /\ unw_coeffs = <<>>
    /\ poster_coeffs = <<>> /\ poster_st_devs = <<>> /\ reduction_rw = <<>>
    /\ saved = <<>>
    /\ constr_op_nums = <<>>
    /\ ks_level \in Levels
    /\ reduction_level \in Levels
    /\ \E n \in 1..MaxSelOps :
          /\ ks_stats \in [1..n -> KsVals]
          /\ reduction_poster \in [1..n -> RedVals]

(* --------------- lines 397-423: save the unweighted set --------------- *)
\* the number of decimals of fmt='%10.5f' at line 417, as a power of ten
SaveScale == 100000

\* the rows np.savetxt writes: each coefficient in units of 1/SaveScale
SavedRows(coeffs) ==
    [i \in DOMAIN coeffs |-> [op \in DOMAIN coeffs[i] |-> coeffs[i][op] * SaveScale]]

save_unw_set ==
    /\ pc = "save"
    /\ saved' = SavedRows(unw_coeffs)
    /\ pc' = "done"
    /\ UNCHANGED <<error, loadVars, weightVars, n_eff, rw_st_devs, unwVars, checkVars, configVars, selectVars>>

Next ==
    \/ LoadPrior
    \/ CalculateWeights
    \/ ReplaceSmallWeights
    \/ AssertNormalization
    \/ EffectiveSize
    \/ Reweighted
    \/ Cumulants
    \/ Unweight
    \/ Expand
    \/ KolmogorovSmirnov
    \/ LoadPosterior
    \/ Reduction
    \/ Select
    \/ save_unw_set

Spec == Init /\ [][Next]_vars

\* the runs with the weights computed from chi2 in fixed point
NextE2E ==
    \/ LoadPriorE2E
    \/ CalculateWeights
    \/ ReplaceSmallWeights
    \/ AssertNormalization
    \/ EffectiveSizeFx
    \/ Reweighted
    \/ Cumulants
    \/ Unweight
    \/ Expand
    \/ KolmogorovSmirnov
    \/ LoadPosterior
    \/ Reduction
    \/ Select
    \/ save_unw_set

SpecE2E == InitE2E /\ [][NextE2E]_vars

\* the selection of the constrained operators on its own
NextSelect == Select

SpecSelect == InitSelect /\ [][NextSelect]_vars

(* ====================================================================== *)
(*                       properties of the pipeline                       *)
(* ====================================================================== *)
\* the integer weights have just been computed (line 219 has run); they
\* and the values they are computed from do not change afterwards
Unweighted == unw_weights # <<>> /\ pc \in {"expand", "aborted"}

\* the normalized weights are positive and sum to the number of replicas
WeightsNormalized ==
    /\ \A i \in Reps : nnpdf_weights[i].kind \in {"num", "tiny"}
    /\ \A i \in Reps : nnpdf_weights[i].kind = "num" => nnpdf_weights[i].num > 0
    /\ SumSeq([i \in Reps |-> nnpdf_weights[i].num]) = Abs(normalization.num)

\* C1: for normalized weights that are positive and sum to the number of
\* replicas, the multiplicities sum to M = floor(n_eff).
C1_MultiplicitySum ==
    (Unweighted /\ WeightsNormalized) => SumSeq(unw_weights) = FloorNEff(n_eff)

\* two replicas of equal weight: n_eff = 2, the slot point 1/2 is the
\* cumulative probability of the first replica, 3 units are handed out
C1_TieCounted ==
    /\ Unweighted /\ WeightsNormalized
    /\ n_reps = 2
    /\ nnpdf_weights[1] = nnpdf_weights[2]
    /\ unw_weights = <<1, 2>>
    /\ FloorNEff(n_eff) = 2

\* the number of slots t in 1..M with C_{i-1} < t/M <= C_i, the cumulative
\* probabilities in units of 1/S
SlotsOfSample(i, cumul, S, M) ==
    Cardinality({t \in 1..M :
                    /\ t * S <= cumul[i] * M
                    /\ (IF i = 1 THEN 0 ELSE cumul[i - 1]) * M < t * S})

\* C2: the multiplicity of sample i is the number of slots t in 1..M with
\* C_{i-1} < t/M <= C_i (C_0 = 0, M = floor(n_eff)), and every slot is
\* counted for exactly one sample.
C2_SlotRule ==
    (Unweighted /\ WeightsNormalized) =>
        /\ \A i \in Reps :
              unw_weights[i] = SlotsOfSample(i, probs_cumul, Abs(normalization.num),
                                             FloorNEff(n_eff))
        /\ \A t \in 1..SlotCount(n_eff) :
              SumSeq([i \in Reps |->
                         UnwWeightsRepNum(i, t, probs_cumul, Abs(normalization.num), n_eff)]) = 1

\* weights 1/4, 1/2, 1/4: n_eff = 2 sqrt(2) and both slot points of the
\* program, 1/n_eff and 2/n_eff, fall to the second replica, where the
\* points 1/2 and 1 give one slot each to the second and third
C2_SlotPoints ==
    /\ Unweighted /\ WeightsNormalized
    /\ n_reps = 3
    /\ probs_cumul = <<1, 3, 4>>
    /\ unw_weights = <<0, 2, 0>>
    /\ FloorNEff(n_eff) = 2

\* all normalized weights are 1
UniformWeights ==
    \A i \in Reps : nnpdf_weights[i].kind = "num"
                    /\ nnpdf_weights[i].num * n_reps = Abs(normalization.num)

\* C3: for uniform weights n_eff is the number of replicas N, so M = N, every
\* multiplicity is floor(M/N) or ceil(M/N), that is 1, and the multiplicity
\* check passes.
C3_Uniform ==
    (Unweighted /\ WeightsNormalized /\ UniformWeights) =>
        /\ IsIntegerNEff(n_eff) /\ FloorNEff(n_eff) = n_reps
        /\ \A i \in Reps : unw_weights[i] = 1
        /\ UnwNormalizationHolds(unw_weights, n_eff)
        /\ pc # "aborted"

\* three replicas of weight 1: n_eff = 3, multiplicities 1, 2, 2 and the
\* run stops at the assertion of line 222
C3_UniformAborts ==
    /\ Unweighted /\ UniformWeights
    /\ n_reps = 3
    /\ IsIntegerNEff(n_eff) /\ FloorNEff(n_eff) = 3
    /\ unw_weights = <<1, 2, 2>>
    /\ pc = "aborted"

\* the weights with d more units for replica i: W_i is increased, the other
\* weights keep their proportions, the sum of the normalized weights stays N
Raise(w, i, d) == [w EXCEPT ![i] = Num(w[i].num + d)]

\* the multiplicities the pipeline gives the raised weights: n_eff follows
\* the weights
RaisedRun(i, d) ==
    LET w == Raise(nnpdf_weights, i, d)
        S == Abs(normalization.num) + d
        ne == NEffOf(w, Num(S))
    IN  [unw_weights |-> UnwWeightsOf(ProbsCumulOf(w), S, ne), n_eff |-> ne]

\* the multiplicities of the raised weights for the slot points of the
\* weights as they are
RaisedFixedTarget(i, d) ==
    UnwWeightsOf(ProbsCumulOf(Raise(nnpdf_weights, i, d)),
                 Abs(normalization.num) + d, n_eff)

\* C4 as stated: increasing only W_i never decreases the multiplicity of
\* sample i.  Both runs are runs in which the multiplicity check passes.
C4_Monotone ==
    (Unweighted /\ WeightsNormalized /\ pc # "aborted") =>
        \A i \in Reps, d \in 1..MaxUnits :
            (/\ Abs(normalization.num) + d <= MaxUnits
             /\ UnwNormalizationHolds(RaisedRun(i, d).unw_weights, RaisedRun(i, d).n_eff))
            => RaisedRun(i, d).unw_weights[i] >= unw_weights[i]

\* C4 for a fixed target: with the slot points t/n_eff kept, increasing only
\* W_i never decreases the multiplicity of sample i.
C4_MonotoneFixedTarget ==
    (Unweighted /\ WeightsNormalized /\ Abs(normalization.num) <= MaxMonoUnits) =>
        \A i \in Reps, d \in 1..MaxUnits :
            Abs(normalization.num) + d <= MaxUnits
            => RaisedFixedTarget(i, d)[i] >= unw_weights[i]

\* weights 1/4, 1/2, 1/4 with the third raised to 1/2: for the slot points
\* as they are the third replica goes from no copy to one
C4_RaisedGains ==
    /\ Unweighted /\ WeightsNormalized
    /\ probs_cumul = <<1, 3, 4>>
    /\ unw_weights[3] = 0
    /\ RaisedFixedTarget(3, 2)[3] = 1

\* C5: when exactly one weight is below 1e-300 the clamp count is 1, that
\* weight is replaced by 1e-300, and its multiplicity is 0, also when a slot
\* point coincides with the cumulative probability before it.
C5_ClampedWeight ==
    (Unweighted /\ WeightsNormalized /\ Cardinality(zero_weights) = 1) =>
        \A i \in zero_weights : nnpdf_weights[i] = Tiny /\ unw_weights[i] = 0

\* weights 1, 0, 1 (the second underflows): n_eff = 2, the slot point 1/2 is
\* the cumulative probability on both sides of the clamped replica, which
\* is counted once
C5_ClampedCounted ==
    /\ Unweighted /\ WeightsNormalized
    /\ n_reps = 3
    /\ zero_weights = {2}
    /\ nnpdf_weights[2] = Tiny
    /\ probs_cumul = <<1, 1, 2>>
    /\ unw_weights = <<1, 1, 2>>

\* the unweighted set has been built (line 230 has run)
Expanded == pc \in {"ks", "posterior", "reduction", "select", "save", "done"}

\* the number of rows of the unweighted set before the block of replica i
BlockOffset(uw, i) == SumSeq([j \in 1..(i - 1) |-> uw[j]])

\* C6: the unweighted set holds, for each replica in the order of the prior,
\* a contiguous block of as many copies of its row as its multiplicity, and
\* nothing else: its length is the sum of the multiplicities, which is M.
C6_Expansion ==
    Expanded =>
        /\ Len(unw_coeffs) = SumSeq(unw_weights)
        /\ Len(unw_coeffs) = FloorNEff(n_eff)
        /\ \A i \in Reps :
              \A c \in 1..unw_weights[i] :
                 unw_coeffs[BlockOffset(unw_weights, i) + c] = prior_coeffs[i]

\* a replica left out, a replica kept twice, rows that differ
C6_BlocksBuilt ==
    /\ Expanded
    /\ \E i, j \in Reps : /\ unw_weights[i] = 0
                          /\ unw_weights[j] = 2
                          /\ prior_coeffs[i] # prior_coeffs[j]
    /\ Len(unw_coeffs) = 2

\* the run of the scenario: four replicas, chi2 1, 2, 3, 4, two data points
\* each (the scaling factor is 1 at line 157)
Scenario ==
    /\ n_reps = 4
    /\ chi2_all_reps = <<1, 2, 3, 4>>
    /\ n_datapoints = <<2, 2, 2, 2>>

\* C7: in the scenario the normalized weights sum to 4, n_eff is below 4,
\* and the multiplicities sum to M = floor(n_eff), the first replica having
\* at least as many copies as the fourth; the run passes its checks.
C7_EndToEnd ==
    Scenario =>
        /\ pc # "aborted"
        /\ nnpdf_weights # <<>> =>
              /\ \A i \in Reps : nnpdf_weights[i].kind = "num" /\ nnpdf_weights[i].num > 0
              /\ SumSeq([i \in Reps |-> nnpdf_weights[i].num]) = normalization.num
              /\ nnpdf_weights[1].num > nnpdf_weights[4].num
        /\ n_eff # NaN => n_eff.hi < 4 * FxFine
        /\ unw_weights # <<>> =>
              /\ \E M \in 1..3 : /\ FloorsFx(n_eff) = {M}
                                 /\ SumSeq(unw_weights) = M
              /\ unw_weights[1] >= unw_weights[4]

\* the scenario run to its end: weights 0.607, 0.520, 0.387, 0.271 before
\* normalization, n_eff = 3.83, M = 3, one copy of each of the first three
\* replicas
C7_ScenarioRun ==
    /\ Scenario
    /\ pc = "done"
    /\ 3 * FxFine < n_eff.lo /\ n_eff.hi < 4 * FxFine
    /\ unw_weights = <<1, 1, 1, 0>>
    /\ Len(saved) = 3

\* the input is one the weight computation is specified to refuse
InvalidInput ==
    \/ n_reps = 0
    \/ \E i \in DOMAIN chi2_all_reps : chi2_all_reps[i] < 0
    \/ \E i \in DOMAIN n_datapoints : n_datapoints[i] < 1

\* C8: when there is no replica, or a chi2 is negative, or a number of data
\* points is below 1, the run aborts before any weight is produced.
C8_InputValidation ==
    InvalidInput => /\ nnpdf_weights = <<>>
                    /\ pc \in {"start", "weights", "aborted"}

\* a run with a number of data points of 0 that goes through to the end
C8_InvalidAccepted ==
    /\ pc = "done"
    /\ \E i \in Reps : n_datapoints[i] < 1 /\ chi2_all_reps[i] > 0
    /\ \A i \in Reps : nnpdf_weights[i].kind = "num"

NormFailed == error = "AssertionError: sum of weights should equal number of replicas"
CumulFailed == error = "AssertionError: probability cumulants do not add up to 1.0000"
UnwFailed == error = "AssertionError: integer weights after unweighting do not satisfy normalization"

\* the stages after a check have left no trace
NothingAfterNorm == n_eff = NaN /\ rw_st_devs = <<>> /\ probs_cumul = <<>>
NothingAfterCumul == unw_weights = <<>>
NothingBuilt == unw_coeffs = <<>> /\ poster_coeffs = <<>> /\ saved = <<>>

AllChecksHold ==
    /\ NormalizationHolds(nnpdf_weights, normalization, n_reps)
    /\ CumulHolds(probs_cumul, normalization)
    /\ UnwNormalizationHolds(unw_weights, n_eff)

C9_Stopped ==
    /\ NormFailed => /\ pc = "aborted"
                     /\ ~NormalizationHolds(nnpdf_weights, normalization, n_reps)
                     /\ NothingAfterNorm /\ NothingAfterCumul /\ NothingBuilt
    /\ CumulFailed => /\ pc = "aborted"
                      /\ NormalizationHolds(nnpdf_weights, normalization, n_reps)
                      /\ ~CumulHolds(probs_cumul, normalization)
                      /\ NothingAfterCumul /\ NothingBuilt
    /\ UnwFailed => /\ pc = "aborted"
                    /\ NormalizationHolds(nnpdf_weights, normalization, n_reps)
                    /\ CumulHolds(probs_cumul, normalization)
                    /\ ~UnwNormalizationHolds(unw_weights, n_eff)
                    /\ NothingBuilt
    /\ (unw_coeffs # <<>> \/ saved # <<>>) => error = "" /\ AllChecksHold
    /\ saved # <<>> => saved = SavedRows(unw_coeffs)

\* a check changes none of the values it checks, and nothing runs after a
\* failed check
C9_Step ==
    /\ pc = "aborted" => FALSE
    /\ pc = "assert_norm" => UNCHANGED <<nnpdf_weights, normalization, n_reps>>
    /\ pc = "cumul" => /\ UNCHANGED <<nnpdf_weights, normalization>>
                       /\ probs_cumul' = ProbsCumulOf(nnpdf_weights)
    /\ pc = "unweight" => /\ UNCHANGED <<probs_cumul, n_eff>>
                          /\ unw_weights' = UnwWeightsOf(probs_cumul, Abs(normalization.num), n_eff)

\* C9: a failed check (normalization of the weights, last cumulative
\* probability, sum of the multiplicities) stops the run at that check: no
\* later stage has run, the unweighted set is neither built nor saved, and
\* the values checked are as they were computed.  The unweighted set is
\* saved only when all three checks hold.
C9_ChecksFatal == []C9_Stopped /\ [][C9_Step]_vars

\* a run stopped by the check of the multiplicities
C9_StoppedAtUnweight ==
    /\ pc = "aborted" /\ UnwFailed
    /\ SumSeq(unw_weights) > FloorNEff(n_eff)
    /\ NothingBuilt

\* the reported value r (the square of comparison/reference as r.num/r.den)
\* is max(0, 1 - comparison/reference) and lies in [0, 1]
ReductionInRange(r, reference, comparison) ==
    /\ r.kind = "num"
    /\ 0 <= r.num /\ r.num <= r.den
    /\ reference.num > 0 =>
          IF comparison.num * reference.den >= comparison.den * reference.num
          THEN r.num = r.den
          ELSE r.num * (comparison.den * reference.num) = r.den * (comparison.num * reference.den)
    /\ (reference.num = 0 /\ comparison.num > 0) => r.num = r.den

\* C10: for every operator the reported reductions, of the posterior and of
\* the reweighted standard deviation, equal max(0, 1 - comparison/reference)
\* and lie in [0, 1], a reference standard deviation of 0 included.
C10_ReductionRange ==
    pc \in {"select", "save", "done"} =>
        \A op \in Ops :
            /\ ReductionInRange(reduction_poster[op], prior_st_devs[op], poster_st_devs[op])
            /\ ReductionInRange(reduction_rw[op], prior_st_devs[op], rw_st_devs[op])

\* an operator with the same value in every prior replica: both standard
\* deviations are 0 and the reported reduction is NaN
C10_NaNReported ==
    /\ pc = "done"
    /\ \E op \in Ops : /\ prior_st_devs[op].num = 0
                       /\ rw_st_devs[op].num = 0
                       /\ reduction_rw[op].kind = "nan"

\* the selection has run (line 289)
Selected == pc \in {"save", "done"}

\* the operators of constr_op_nums
ConstrOps == {constr_op_nums[j] : j \in DOMAIN constr_op_nums}

\* the KS statistic of operator i is above, or at, the KS level
KsAbove(i) == ks_stats[i].num * ks_level.den > ks_level.num * ks_stats[i].den
KsAtLevel(i) == ks_stats[i].num * ks_level.den = ks_level.num * ks_stats[i].den

\* the reduction of operator i, 1 - sqrt(num/den), is above, or at, the
\* reduction level: sqrt(num/den) below, or at, 1 - level
RedAbove(i) ==
    LET r == reduction_poster[i]
        c == reduction_level.den - reduction_level.num
    IN  /\ r.kind = "num"
        /\ c > 0
        /\ r.num * reduction_level.den * reduction_level.den < r.den * c * c
RedAtLevel(i) ==
    LET r == reduction_poster[i]
        c == reduction_level.den - reduction_level.num
    IN  /\ r.kind = "num"
        /\ c >= 0
        /\ r.num * reduction_level.den * reduction_level.den = r.den * c * c

\* C11: an operator is in the constrained set iff its KS statistic is
\* strictly above the KS level and its reduction strictly above the
\* reduction level; an operator with either value at its level is left
\* out, and the set is the intersection of the two sets of operators that
\* pass one level, each operator listed once.
C11_Selection ==
    Selected =>
        /\ \A i \in DOMAIN ks_stats : i \in ConstrOps <=> (KsAbove(i) /\ RedAbove(i))
        /\ \A i \in DOMAIN ks_stats : (KsAtLevel(i) \/ RedAtLevel(i)) => i \notin ConstrOps
        /\ ConstrOps = {i \in DOMAIN ks_stats : KsAbove(i)}
                          \cap {i \in DOMAIN reduction_poster : RedAbove(i)}
        /\ \A j \in DOMAIN constr_op_nums : j > 1 => constr_op_nums[j - 1] < constr_op_nums[j]

\* three operators: one with its KS statistic at the level and its
\* reduction above, one with its reduction at the level and its KS
\* statistic above, one with both above; only the last is selected
C11_TiesLeftOut ==
    /\ Selected
    /\ Len(ks_stats) = 3
    /\ KsAtLevel(1) /\ RedAbove(1)
    /\ KsAbove(2) /\ RedAtLevel(2)
    /\ KsAbove(3) /\ RedAbove(3)
    /\ constr_op_nums = <<3>>

==========================================================================
